---- MODULE Spec2Model ----
(***************************************************************************)
(* The game session of backend/internal/service/game.go as a state         *)
(* machine.  The Game struct is the record g, the Player structs the       *)
(* roster points to are the heap hp (player id -> struct), and every       *)
(* goroutine that runs a method of Game (the host's connection, one        *)
(* connection per player, the timer goroutine Start spawns) is a task      *)
(* with a stack of frames.  Step executes the statement(s) of the frame    *)
(* on top of a task's stack.  Two next-state relations use the same Step:  *)
(* Next runs every handler to completion (one handler at a time), NextConc *)
(* interleaves the tasks frame by frame, as the goroutines may.            *)
(***************************************************************************)
EXTENDS Integers, Sequences, FiniteSets, TLC

VARIABLES g, hp, mx, net, tasks, op, left

vars == <<g, hp, mx, net, tasks, op, left>>

\* ---------------------------------------------------------------- bounds
MaxPlayers == 2
MaxAnswers == 2
MaxHost == 3
MaxTicks == 3
MaxTicksPlay == 2
MaxTicksZero == 313
MaxHostZero == 2
MaxAnswersConc == 1
MaxHostConc == 2
MaxPlayersConc == 1
MaxTicksConc == 3
MaxHostTimer == 2
MaxPlayersTimer == 1
MaxTicksTimer == 38
MaxRoster == 4
MaxScore == 2
MaxHostNet == 3
MaxAnswersNet == 1
MaxTicksNet == 1
MaxHostRace == 2
MaxTicksLive == 40
MaxAnswersRace == 2
MaxTicksRace == 38

\* ------------------------------------------------------- program constants
LobbyState == 0
PlayState == 1
IntermissionState == 2
RevealState == 3
EndState == 4

\* ------------------------------------------------------------ quiz inputs
\* entity.QuizQuestion: a time limit and the choices' Correct flags
Question(time) == [Time |-> time, Choices |-> <<TRUE, FALSE>>]

Quizzes == {<< >>, <<Question(2), Question(1)>>}
QuizzesZero == {<<Question(0)>>}
QuizzesConc == {<< >>, <<Question(1)>>}
QuizzesLive == {<< >>, <<Question(0)>>, <<Question(1)>>}
QuizzesAnswers == {<<Question(2)>>}

Names == {"ann"}
NamesLB == {"ann", "bob"}
ChoiceInputs == {-1, 0, 1, 2}

PlayerIds == 1..MaxPlayers
HostTask == MaxPlayers + 1
TimerTask == MaxPlayers + 2
TaskIds == 1..(MaxPlayers + 2)

Min(a, b) == IF a < b THEN a ELSE b
Max(a, b) == IF a < b THEN b ELSE a

F(l, a, b) == [l |-> l, a |-> a, b |-> b]

\* the whole program state as one value, for the step function
M == [g |-> g, hp |-> hp, mx |-> mx, net |-> net, tasks |-> tasks]

\* ------------------------------------------------------------ newGame
newGame(quiz) ==
    [Quiz |-> quiz, CurrentQuestion |-> -1, Players |-> << >>,
     Ended |-> FALSE, Time |-> 60, State |-> LobbyState]

\* ------------------------------------------------------------ helpers
ValidQuestion(gm) ==
    gm.CurrentQuestion >= 0 /\ gm.CurrentQuestion < Len(gm.Quiz)

\* only evaluated when ValidQuestion holds; otherwise the Go code panics
getCurrentQuestion(gm) == gm.Quiz[gm.CurrentQuestion + 1]

isCorrectChoice(gm, choiceIndex) ==
    LET choices == getCurrentQuestion(gm).Choices
    IN  IF choiceIndex < 0 \/ choiceIndex >= Len(choices)
        THEN FALSE
        ELSE choices[choiceIndex + 1]

getAnsweredPlayers(m) ==
    SelectSeq(m.g.Players, LAMBDA id : m.hp[id].Answered)

\* orderReward + timeReward of getPointsReward, as a function of its reads
PointsReward(answered, time) ==
    LET orderReward == 5000 - (1000 * Min(4, answered))
        timeReward == time * (1000 \div 60)
    IN  orderReward + timeReward

getPointsReward(m) == PointsReward(Len(getAnsweredPlayers(m)), m.g.Time)

LessAscending(h, i, j) == h[i].Points < h[j].Points

\* sort.Slice on fewer than 12 elements is an insertion sort: an element
\* moves left while less(it, left neighbour), i.e. while it has more points
Less(h, i, j) == h[i].Points > h[j].Points

RECURSIVE Insert(_, _, _)
Insert(h, sorted, x) ==
    IF sorted = << >> \/ ~Less(h, x, sorted[Len(sorted)])
    THEN Append(sorted, x)
    ELSE Append(Insert(h, SubSeq(sorted, 1, Len(sorted) - 1), x),
                sorted[Len(sorted)])

RECURSIVE SortSlice(_, _)
SortSlice(h, s) ==
    IF s = << >> THEN << >>
    ELSE Insert(h, SortSlice(h, SubSeq(s, 1, Len(s) - 1)), s[Len(s)])

LeaderboardSize(n) == Min(3, n)

\* getLeaderboard sorts g.Players in place and returns the first entries
getLeaderboard(m) ==
    LET sorted == SortSlice(m.hp, m.g.Players)
    IN  [m   |-> [m EXCEPT !.g.Players = sorted],
         out |-> [i \in 1..LeaderboardSize(Len(sorted)) |->
                    [Name |-> m.hp[sorted[i]].Name,
                     Points |-> m.hp[sorted[i]].Points]]]

ResetPlayerAnswerStates(m) ==
    [m EXCEPT !.hp = [id \in DOMAIN m.hp |->
        IF \E i \in 1..Len(m.g.Players) : m.g.Players[i] = id
        THEN [m.hp[id] EXCEPT !.Answered = FALSE]
        ELSE m.hp[id]]]

\* ------------------------------------------------------------ the network
\* a connection is named by its owner: a player's id, HostTask for g.Host.
\* net.down holds the connections whose WriteMessage returns an error;
\* net.sent lists the SendPacket calls made since the last message arrived
\* (or the timer's iteration began), kept only where net.trace is set.
\* PacketToBytes does not fail for the packet types game.go sends.
SendOk(m, to) == to \notin m.net.down

SendPacket(m, to, kind, val) ==
    IF m.net.trace
    THEN [m EXCEPT !.net.sent =
             Append(@, [to |-> to, kind |-> kind, val |-> val, ok |-> SendOk(m, to)])]
    ELSE m

\* the loop over g.Players from index i on: it returns at the first error
RECURSIVE BroadcastPlayers(_, _, _, _)
BroadcastPlayers(m, i, kind, val) ==
    IF i > Len(m.g.Players) THEN [m |-> m, err |-> FALSE]
    ELSE LET to == m.g.Players[i]
             m2 == SendPacket(m, to, kind, val)
         IN  IF ~SendOk(m, to) THEN [m |-> m2, err |-> TRUE]
             ELSE BroadcastPlayers(m2, i + 1, kind, val)

BroadcastPacket(m, kind, val, includeHost) ==
    LET r == BroadcastPlayers(m, 1, kind, val)
    IN  IF r.err THEN r.m
        ELSE IF includeHost THEN SendPacket(r.m, HostTask, kind, val)
        ELSE r.m

\* ------------------------------------------------------------ the frames
\* what a frame leaves on the stack in place of itself
Start == <<F("ChangeState", PlayState, 0), F("NextQuestion", 0, 0), F("go", 0, 0)>>

StartOrSkip(m) ==
    IF m.g.State = LobbyState THEN Start ELSE <<F("NextQuestion", 0, 0)>>

\* ChangeState: Lock and the assignment; the broadcast and the deferred
\* Unlock are the frame it leaves
ChangeState(m, self, state) ==
    [m EXCEPT !.mx = self, !.g.State = state]

ChangeStateBroadcast(m, state) ==
    [BroadcastPacket(m, "ChangeGameStatePacket", state, TRUE)
        EXCEPT !.mx = 0,
               !.net.endState = IF state = EndState THEN @ + 1 ELSE @]

\* NextQuestion up to the branch on the index
NextQuestion(m) == [m EXCEPT !.g.CurrentQuestion = @ + 1]

NextQuestionRest(m) ==
    IF m.g.CurrentQuestion >= Len(m.g.Quiz)
    THEN <<F("End", 0, 0)>>
    ELSE <<F("ResetPlayerAnswerStates", 0, 0), F("ChangeState", PlayState, 0),
           F("NextQuestionShow", 0, 0)>>

\* g.Time = currentQuestion.Time and the QuestionShowPacket to the host
NextQuestionShow(m) ==
    SendPacket([m EXCEPT !.g.Time = getCurrentQuestion(m.g).Time],
               HostTask, "QuestionShowPacket", m.g.CurrentQuestion)

\* End: the locked test-and-set of Ended; what follows it is decided by
\* the value of Ended it read
End(m) ==
    [m EXCEPT !.g.Ended = TRUE, !.net.endCalls = @ + 1]

EndRestUnguarded(m) ==
    <<F("ChangeState", EndState, 0), F("EndBroadcast", 0, 0)>>

EndRest(m) ==
    IF m.g.Ended THEN << >>
    ELSE <<F("ChangeState", EndState, 0), F("EndBroadcast", 0, 0)>>

EndBroadcast(m) ==
    LET lb == getLeaderboard(m)
    IN  [BroadcastPacket(lb.m, "LeaderboardPacket", lb.out, TRUE)
            EXCEPT !.net.endBoard = @ + 1]

RevealTime == 7

RevealKeep(m) == [m EXCEPT !.g.Time = RevealTime]

\* the Points field of the PlayerRevealPacket written to player id
RevealPointsOfFirst(m, id) == m.hp[m.g.Players[1]].LastAwardedPoints

RevealPoints(m, id) == m.hp[id].LastAwardedPoints

\* the SendPacket calls of Reveal's loop, from roster index i on
RECURSIVE RevealPackets(_, _)
RevealPackets(m, i) ==
    IF i > Len(m.g.Players) THEN m
    ELSE RevealPackets(SendPacket(m, m.g.Players[i], "PlayerRevealPacket",
                                  RevealPoints(m, m.g.Players[i])), i + 1)

\* a player's LastAwardedPoints is zeroed before that player's packet is
\* written and not touched by the later iterations
Reveal(m) ==
    RevealPackets(
        [m EXCEPT !.g.Time = RevealTime,
                  !.hp = [id \in DOMAIN m.hp |->
                      IF (\E i \in 1..Len(m.g.Players) : m.g.Players[i] = id)
                         /\ ~m.hp[id].Answered
                      THEN [m.hp[id] EXCEPT !.LastAwardedPoints = 0]
                      ELSE m.hp[id]]], 1)

IntermissionTime == 30

Intermission(m) == [m EXCEPT !.g.Time = IntermissionTime]

IntermissionBroadcast(m) ==
    LET lb == getLeaderboard(m)
    IN  BroadcastPacket(lb.m, "LeaderboardPacket", lb.out, TRUE)

Tick(m) ==
    SendPacket([m EXCEPT !.g.Time = @ - 1], HostTask, "TickPacket", m.g.Time - 1)

\* the switch shared by Tick (on g.State) and Skip (on currentState)
PhaseSwitch(state) ==
    CASE state = PlayState -> <<F("Reveal", 0, 0)>>
      [] state = RevealState -> <<F("Intermission", 0, 0)>>
      [] state = IntermissionState -> <<F("NextQuestion", 0, 0)>>
      [] OTHER -> << >>

TickRest(m) == IF m.g.Time = 0 THEN PhaseSwitch(m.g.State) ELSE << >>

\* Skip after reading currentState under the lock: the forcing loop
Skip(m) ==
    [m EXCEPT !.hp = [id \in DOMAIN m.hp |->
        IF (\E i \in 1..Len(m.g.Players) : m.g.Players[i] = id)
           /\ ~m.hp[id].Answered
        THEN [m.hp[id] EXCEPT !.LastAwardedPoints = 0, !.Answered = TRUE]
        ELSE m.hp[id]]]

\* OnPlayerAnswer up to player.Answered = true
OnPlayerAnswer(m, choice, player) ==
    IF isCorrectChoice(m.g, choice)
    THEN LET reward == getPointsReward(m)
         IN  [m EXCEPT !.hp[player].LastAwardedPoints = reward,
                       !.hp[player].Points = @ + reward]
    ELSE [m EXCEPT !.hp[player].LastAwardedPoints = 0]

OnPlayerAnswerMark(m, player) == [m EXCEPT !.hp[player].Answered = TRUE]

OnPlayerAnswerRestAny(m) ==
    IF Len(getAnsweredPlayers(m)) >= 1
    THEN <<F("Reveal", 0, 0)>>
    ELSE << >>

OnPlayerAnswerRest(m) ==
    IF Len(getAnsweredPlayers(m)) = Len(m.g.Players)
    THEN <<F("Reveal", 0, 0)>>
    ELSE << >>

\* the Player struct OnPlayerJoin builds
NewPlayerAnswered(name) ==
    [Name |-> name, Points |-> 0, LastAwardedPoints |-> 0, Answered |-> TRUE]

NewPlayer(name) ==
    [Name |-> name, Points |-> 0, LastAwardedPoints |-> 0, Answered |-> FALSE]

OnPlayerJoin(m, name, id) ==
    LET m2 == [m EXCEPT !.hp = id :> NewPlayer(name) @@ m.hp,
                        !.g.Players = Append(@, id)]
        m3 == SendPacket(m2, id, "ChangeGameStatePacket", m2.g.State)
    IN  SendPacket(m3, HostTask, "PlayerJoinPacket", id)

OnPlayerDisconnect(m, player) ==
    SendPacket([m EXCEPT !.g.Players = SelectSeq(@, LAMBDA id : id # player),
                         !.hp = [id \in DOMAIN m.hp \ {player} |-> m.hp[id]]],
               HostTask, "PlayerDisconnectPacket", player)

\* a runtime panic (index out of range in getCurrentQuestion) unwinds the task
Panic(m, self) == [m EXCEPT !.tasks[self] = << >>, !.net.panicked = TRUE]

\* ------------------------------------------------------------ Step
\* the frames that begin with stateMutex.Lock()
Locks(f) == f.l \in {"ChangeState", "End", "Skip"}

StepEnabled(m, self) ==
    /\ m.tasks[self] # << >>
    /\ Locks(m.tasks[self][1]) => m.mx = 0

Step(m, self) ==
    LET f == m.tasks[self][1]
        rest == Tail(m.tasks[self])
        Go(m2, frames) == [m2 EXCEPT !.tasks[self] = frames \o rest]
    IN  CASE f.l = "StartOrSkip" -> Go(m, StartOrSkip(m))
          [] f.l = "ChangeState" ->
                Go(ChangeState(m, self, f.a), <<F("ChangeStateBroadcast", f.a, 0)>>)
          [] f.l = "ChangeStateBroadcast" -> Go(ChangeStateBroadcast(m, f.a), << >>)
          [] f.l = "NextQuestion" ->
                LET m2 == NextQuestion(m) IN Go(m2, NextQuestionRest(m2))
          [] f.l = "ResetPlayerAnswerStates" -> Go(ResetPlayerAnswerStates(m), << >>)
          [] f.l = "NextQuestionShow" ->
                IF ValidQuestion(m.g) THEN Go(NextQuestionShow(m), << >>)
                ELSE Panic(m, self)
          [] f.l = "End" -> Go(End(m), EndRest(m))
          [] f.l = "EndBroadcast" -> Go(EndBroadcast(m), << >>)
          [] f.l = "Reveal" ->
                Go(Reveal(m), <<F("ChangeState", RevealState, 0)>>)
          [] f.l = "Intermission" ->
                Go(Intermission(m), <<F("ChangeState", IntermissionState, 0),
                                      F("IntermissionBroadcast", 0, 0)>>)
          [] f.l = "IntermissionBroadcast" -> Go(IntermissionBroadcast(m), << >>)
          [] f.l = "Tick" -> Go(Tick(m), <<F("TickCheck", 0, 0)>>)
          [] f.l = "TickCheck" -> Go(m, TickRest(m))
          [] f.l = "Skip" -> Go(m, <<F("SkipForce", m.g.State, 0)>>)
          [] f.l = "SkipForce" -> Go(Skip(m), PhaseSwitch(f.a))
          [] f.l = "OnPlayerAnswer" ->
                IF ValidQuestion(m.g)
                THEN Go(OnPlayerAnswer(m, f.a, f.b), <<F("OnPlayerAnswerMark", 0, f.b)>>)
                ELSE Panic(m, self)
          [] f.l = "OnPlayerAnswerMark" ->
                LET m2 == OnPlayerAnswerMark(m, f.b) IN Go(m2, OnPlayerAnswerRest(m2))
          [] f.l = "OnPlayerJoin" -> Go(OnPlayerJoin(m, f.a, f.b), << >>)
          [] f.l = "OnPlayerDisconnect" -> Go(OnPlayerDisconnect(m, f.b), << >>)
          [] f.l = "go" ->
                [Go(m, << >>) EXCEPT !.tasks[TimerTask] = <<F("loop", 0, 0)>>]
          [] f.l = "loop" ->
                IF m.g.Ended THEN [m EXCEPT !.tasks[self] = << >>]
                ELSE Go([m EXCEPT !.net.sent = << >>],
                        <<F("Tick", 0, 0), F("loop", 0, 0)>>)

\* run a task until its stack is back to depth frames (a handler returns)
RECURSIVE Run(_, _, _)
Run(m, self, depth) ==
    IF Len(m.tasks[self]) <= depth THEN m ELSE Run(Step(m, self), self, depth)

Call(m, self, frame) ==
    [m EXCEPT !.tasks[self] = <<frame>>, !.net.sent = << >>]

\* ------------------------------------------------------------ Init
Idle == [t \in TaskIds |-> << >>]

\* the last message handled: its kind, its player, its choice and the
\* question that was current when it arrived
Msg(name, p, c) == [name |-> name, p |-> p, c |-> c, q |-> g.CurrentQuestion]

NoOp == [name |-> "none", p |-> 0, c |-> 0, q |-> -1]

NetInit(trace) ==
    [endCalls |-> 0, endState |-> 0, endBoard |-> 0, panicked |-> FALSE,
     down |-> {}, sent |-> << >>, trace |-> trace]

InitWith(quizzes, host, answers, joins, ticks) ==
    /\ g \in {newGame(q) : q \in quizzes}
    /\ hp = << >>
    /\ mx = 0
    /\ net = NetInit(FALSE)
    /\ tasks = Idle
    /\ op = NoOp
    /\ left = [host |-> host, answers |-> answers, joins |-> joins, ticks |-> ticks]

Init == InitWith(Quizzes, MaxHost, MaxAnswers, MaxPlayers, MaxTicks)

Apply(m, newop, newleft) ==
    /\ g' = m.g
    /\ hp' = m.hp
    /\ mx' = m.mx
    /\ net' = m.net
    /\ tasks' = m.tasks
    /\ op' = newop
    /\ left' = newleft

\* no handler is running (the timer goroutine sleeps between two ticks)
Quiescent ==
    /\ \A t \in TaskIds \ {TimerTask} : tasks[t] = << >>
    /\ tasks[TimerTask] \in {<< >>, <<F("loop", 0, 0)>>}

\* the id of the next connection: ids are fresh, the smallest free one stands
\* for uuid.New()
FreshId == CHOOSE id \in PlayerIds \ DOMAIN hp :
              \A j \in PlayerIds \ DOMAIN hp : id <= j

\* ------------------------------------------------------------ handlers run whole
Handle(self, frame, newop, newleft) ==
    /\ Quiescent
    /\ Apply(Run(Call(M, self, frame), self, 0), newop, newleft)

HostStartOrSkip ==
    /\ left.host > 0
    /\ Handle(HostTask, F("StartOrSkip", 0, 0),
              Msg("StartOrSkip", 0, 0),
              [left EXCEPT !.host = @ - 1])

HostSkip ==
    /\ left.host > 0
    /\ Handle(HostTask, F("Skip", 0, 0),
              Msg("Skip", 0, 0),
              [left EXCEPT !.host = @ - 1])

PlayerJoin ==
    /\ left.joins > 0
    /\ PlayerIds \ DOMAIN hp # {}
    /\ \E name \in Names :
          Handle(FreshId, F("OnPlayerJoin", name, FreshId),
                 Msg("OnPlayerJoin", FreshId, 0),
                 [left EXCEPT !.joins = @ - 1])

PlayerAnswer ==
    /\ left.answers > 0
    /\ \E player \in DOMAIN hp, choice \in ChoiceInputs :
          Handle(player, F("OnPlayerAnswer", choice, player),
                 Msg("OnPlayerAnswer", player, choice),
                 [left EXCEPT !.answers = @ - 1])

\* the same handler, for clients that submit only while the phase is Play
PlayerAnswerInPlay ==
    /\ g.State = PlayState
    /\ PlayerAnswer

PlayerDisconnect ==
    \E player \in DOMAIN hp :
        Handle(player, F("OnPlayerDisconnect", 0, player),
               Msg("OnPlayerDisconnect", player, 0), left)

\* one iteration of the timer goroutine's loop
TimerIteration(m) == Run(Step(m, TimerTask), TimerTask, 1)

TimerTick ==
    /\ Quiescent
    /\ tasks[TimerTask] # << >>
    /\ left.ticks > 0
    /\ Apply(TimerIteration(M), op, [left EXCEPT !.ticks = @ - 1])

Next ==
    \/ HostStartOrSkip
    \/ HostSkip
    \/ PlayerJoin
    \/ PlayerAnswer
    \/ PlayerDisconnect
    \/ TimerTick

Spec == Init /\ [][Next]_vars

NextPlay ==
    \/ HostStartOrSkip
    \/ HostSkip
    \/ PlayerJoin
    \/ PlayerAnswerInPlay
    \/ PlayerDisconnect
    \/ TimerTick

InitPlay == InitWith(Quizzes, MaxHost, MaxAnswers, MaxPlayers, MaxTicksPlay)

SpecPlay == InitPlay /\ [][NextPlay]_vars

\* a quiz whose question has time limit 0: the countdown starts at 0
InitZero == InitWith(QuizzesZero, MaxHostZero, 1, 1, MaxTicksZero)

SpecZero == InitZero /\ [][Next]_vars

\* ------------------------------------------------------------ the packets written
\* the handlers run whole, as in SpecPlay, with the SendPacket calls of the
\* last handler kept in net.sent, and a connection that breaks: from then on
\* WriteMessage on it returns an error (the owner's disconnect has not been
\* handled)
ConnectionBreak ==
    /\ Quiescent
    /\ net.down = {}
    /\ \E c \in (DOMAIN hp \cup {HostTask}) \ net.down :
          Apply([M EXCEPT !.net.down = @ \cup {c}], op, left)

NextNet ==
    \/ HostStartOrSkip
    \/ HostSkip
    \/ PlayerJoin
    \/ PlayerAnswerInPlay
    \/ TimerTick
    \/ ConnectionBreak

InitNet ==
    /\ g \in {newGame(q) : q \in Quizzes}
    /\ hp = << >>
    /\ mx = 0
    /\ net = NetInit(TRUE)
    /\ tasks = Idle
    /\ op = NoOp
    /\ left = [host |-> MaxHostNet, answers |-> MaxAnswersNet,
               joins |-> MaxPlayers, ticks |-> MaxTicksNet]

SpecNet == InitNet /\ [][NextNet]_vars

\* ------------------------------------------------------------ getLeaderboard alone
\* the session as Intermission finds it after the first question, for every
\* roster of up to MaxRoster players in join order, each with no points or
\* one of MaxScore rewards; the action is a call of getLeaderboard
ScoresLB == {0} \cup {PointsReward(k, 1) : k \in 0..(MaxScore - 1)}

InitLB ==
    /\ \E n \in 0..MaxRoster :
          /\ g = [newGame(<<Question(1)>>) EXCEPT
                    !.Players = [i \in 1..n |-> i], !.CurrentQuestion = 0,
                    !.State = IntermissionState, !.Time = IntermissionTime]
          /\ hp \in [1..n -> [Name : NamesLB, Points : ScoresLB,
                               LastAwardedPoints : {0}, Answered : {TRUE}]]
    /\ mx = 0
    /\ net = NetInit(FALSE)
    /\ tasks = Idle
    /\ op = NoOp
    /\ left = [host |-> 0, answers |-> 0, joins |-> 0, ticks |-> 0]

LeaderboardCall ==
    Apply(getLeaderboard(M).m, Msg("getLeaderboard", 0, 0), left)

NextLB == LeaderboardCall

SpecLB == InitLB /\ [][NextLB]_vars

\* ------------------------------------------------------------ goroutines interleaved
\* a message arrives on an idle connection: its handler starts (first frame)
Begin(self, frame, newop, newleft) ==
    /\ tasks[self] = << >>
    /\ StepEnabled(Call(M, self, frame), self)
    /\ Apply(Step(Call(M, self, frame), self), newop, newleft)

ConcStartOrSkip ==
    /\ left.host > 0
    /\ Begin(HostTask, F("StartOrSkip", 0, 0),
             Msg("StartOrSkip", 0, 0),
             [left EXCEPT !.host = @ - 1])

ConcSkip ==
    /\ left.host > 0
    /\ Begin(HostTask, F("Skip", 0, 0),
             Msg("Skip", 0, 0),
             [left EXCEPT !.host = @ - 1])

ConcJoin ==
    /\ left.joins > 0
    /\ PlayerIds \ DOMAIN hp # {}
    /\ \E name \in Names :
          Begin(FreshId, F("OnPlayerJoin", name, FreshId),
                Msg("OnPlayerJoin", FreshId, 0),
                [left EXCEPT !.joins = @ - 1])

ConcAnswer ==
    /\ left.answers > 0
    /\ \E player \in DOMAIN hp, choice \in ChoiceInputs :
          Begin(player, F("OnPlayerAnswer", choice, player),
                Msg("OnPlayerAnswer", player, choice),
                [left EXCEPT !.answers = @ - 1])

ConcDisconnect ==
    \E player \in DOMAIN hp :
        Begin(player, F("OnPlayerDisconnect", 0, player),
              Msg("OnPlayerDisconnect", player, 0), left)

\* a running handler executes its next frame
ConcStep ==
    \E self \in TaskIds \ {TimerTask} :
        /\ StepEnabled(M, self)
        /\ Apply(Step(M, self), op, left)

\* the timer goroutine executes its next frame
ConcTimer ==
    /\ StepEnabled(M, TimerTask)
    /\ LET ticking == tasks[TimerTask][1].l = "Tick"
       IN  /\ ticking => left.ticks > 0
           /\ Apply(Step(M, TimerTask), op,
                    [left EXCEPT !.ticks = IF ticking THEN @ - 1 ELSE @])

NextConc ==
    \/ ConcStartOrSkip
    \/ ConcSkip
    \/ ConcJoin
    \/ ConcAnswer
    \/ ConcDisconnect
    \/ ConcStep
    \/ ConcTimer

InitConc ==
    InitWith(QuizzesConc, MaxHostConc, MaxAnswersConc, MaxPlayersConc, MaxTicksConc)

SpecConc == InitConc /\ [][NextConc]_vars

\* the host's connection, joining players and the timer goroutine over a
\* whole game: the countdowns run out by themselves
NextTimer ==
    \/ ConcStartOrSkip
    \/ ConcSkip
    \/ ConcJoin
    \/ ConcStep
    \/ ConcTimer

InitTimer == InitWith(QuizzesConc, MaxHostTimer, 0, MaxPlayersTimer, MaxTicksTimer)

SpecTimer == InitTimer /\ [][NextTimer]_vars

\* a host that starts the game from the Lobby and from then on only skips,
\* with the timer goroutine running beside it
ConcStart ==
    /\ g.State = LobbyState
    /\ ConcStartOrSkip

NextRace ==
    \/ ConcStart
    \/ ConcSkip
    \/ ConcStep
    \/ ConcTimer

InitRace == InitWith(QuizzesConc, MaxHostRace, 0, 0, MaxTicksRace)

SpecRace == InitRace /\ [][NextRace]_vars

\* players join in the Lobby, the host starts the game, and from then on
\* only the timer goroutine runs
LobbyJoin ==
    /\ g.State = LobbyState
    /\ PlayerJoin

HostStart ==
    /\ g.State = LobbyState
    /\ HostStartOrSkip

NextLive ==
    \/ LobbyJoin
    \/ HostStart
    \/ TimerTick

InitLive == InitWith(QuizzesLive, 1, 0, MaxPlayers, MaxTicksLive)

SpecLive == InitLive /\ [][NextLive]_vars

\* the players' connections beside each other: answers that arrive during
\* Play are handled on their own goroutines, frame by frame
ConcAnswerInPlay ==
    /\ g.State = PlayState
    /\ ConcAnswer

NextAnswers ==
    \/ ConcJoin
    \/ ConcStart
    \/ ConcAnswerInPlay
    \/ ConcStep

InitAnswers == InitWith(QuizzesAnswers, 1, MaxAnswersRace, MaxPlayers, 0)

SpecAnswers == InitAnswers /\ [][NextAnswers]_vars

\* ================================================================ claims
\* a step that handles a SubmitAnswer message: op' names the player and
\* the choice, the unprimed variables are the state it arrived in
AnswerStep == left'.answers < left.answers

AnsweredBefore == Len(getAnsweredPlayers(M))

\* the reward as the specification words it
SpecReward(k, t) == Max(0, 5000 - 1000 * Min(4, k)) + ((t * 1000) \div 60)

\* C1: a player's further submission while the same question is current
\* adds nothing to that player's Points (the statement of the claim).
C1_SecondSubmissionAddsNothing ==
    [][(/\ AnswerStep
        /\ op.name = "OnPlayerAnswer"
        /\ op.p = op'.p
        /\ op.q = g.CurrentQuestion)
       => hp'[op'.p].Points = hp[op'.p].Points]_vars

\* C2: an answer that arrives while the phase is not Play changes no
\* player's fields, nor the countdown, nor the phase (the statement of the
\* claim).
C2_AnswerOutsidePlayNoEffect ==
    [][(AnswerStep /\ g.State # PlayState)
       => (hp' = hp /\ g'.Time = g.Time /\ g'.State = g.State)]_vars

\* C3: a player's first answer to the current question during Play is
\* awarded max(0, 5000 - 1000*min(4, k)) + floor(t*1000/60) when correct and
\* 0 when not, k the players who answered before and t the seconds
\* remaining (the statement of the claim).
C3_RewardFormula ==
    [][(AnswerStep /\ g.State = PlayState /\ ~hp[op'.p].Answered)
       => hp'[op'.p].LastAwardedPoints =
            IF isCorrectChoice(g, op'.c)
            THEN SpecReward(AnsweredBefore, g.Time) ELSE 0]_vars

\* C4: every reward handed out is >= 0 and no player's Points is negative
\* (the statement of the claim, on the values getPointsReward returned).
C4_RewardNeverNegative ==
    \A id \in DOMAIN hp :
        hp[id].LastAwardedPoints >= 0 /\ hp[id].Points >= 0

Roster(gm) == {gm.Players[i] : i \in 1..Len(gm.Players)}

\* C5: an answer handled during Play marks the player answered and leaves
\* the others' fields alone; if every roster player has then answered, the
\* phase is Reveal with the countdown at 7 when the handler returns,
\* whatever the countdown was; otherwise, the countdown being above 0, the
\* phase and the countdown are unchanged.
C5_LastAnswerReveals ==
    [][(AnswerStep /\ g.State = PlayState)
       => /\ hp'[op'.p].Answered
          /\ \A id \in DOMAIN hp \ {op'.p} : hp'[id] = hp[id]
          /\ hp'[op'.p].LastAwardedPoints > 0 <=> isCorrectChoice(g, op'.c)
          /\ IF \A id \in Roster(g') : hp'[id].Answered
             THEN g'.State = RevealState /\ g'.Time = 7
             ELSE g.Time > 0 => (g'.State = PlayState /\ g'.Time = g.Time)]_vars

\* C5 witness: the second of two roster players has just answered before
\* the countdown ran out, and the session is in Reveal.
C5_Witness ==
    /\ op.name = "OnPlayerAnswer"
    /\ g.State = RevealState
    /\ g.Time = 7
    /\ left.ticks = MaxTicksPlay
    /\ Len(g.Players) = 2
    /\ \A id \in Roster(g) : hp[id].Answered

\* the host's Skip, and the countdown running out, from a state m
SkipFrom(m) == Run(Call(m, HostTask, F("Skip", 0, 0)), HostTask, 0)

RECURSIVE Timeout(_)
Timeout(m) ==
    IF m.g.State = PlayState /\ m.g.Time >= 1
    THEN Timeout(TimerIteration(m))
    ELSE m

\* C6: from every Play state, Skip and the countdown running out both
\* end in Reveal with the countdown at 7, every unanswered player's
\* LastAwardedPoints 0, and Points, the answered players'
\* LastAwardedPoints, the roster and the question index as they were.
C6_SkipLikeTimeout ==
    (Quiescent /\ g.State = PlayState /\ g.Time >= 1)
    => LET a == SkipFrom(M)
           b == Timeout(M)
       IN  /\ a.g.State = RevealState /\ b.g.State = RevealState
           /\ a.g.Time = 7 /\ b.g.Time = 7
           /\ a.g.Players = g.Players /\ b.g.Players = g.Players
           /\ a.g.CurrentQuestion = g.CurrentQuestion
           /\ b.g.CurrentQuestion = g.CurrentQuestion
           /\ \A id \in DOMAIN hp :
                /\ a.hp[id].Points = hp[id].Points
                /\ b.hp[id].Points = hp[id].Points
                /\ a.hp[id].LastAwardedPoints =
                     IF hp[id].Answered THEN hp[id].LastAwardedPoints ELSE 0
                /\ b.hp[id].LastAwardedPoints = a.hp[id].LastAwardedPoints

\* C6 witness: the host has skipped the second question's Play while a
\* player who scored on the first question had not answered it.
C6_Witness ==
    /\ op.name = "Skip"
    /\ op.q = 1
    /\ g.State = RevealState
    /\ \E id \in Roster(g) : hp[id].Points > 0 /\ hp[id].LastAwardedPoints = 0

\* what a call of getLeaderboard returns in the current state, and the
\* roster it leaves
Board == getLeaderboard(M).out

BoardAgain == getLeaderboard(getLeaderboard(M).m).out

Shape(board) ==
    /\ Len(board) = Min(3, Len(g.Players))
    /\ \E pick \in [1..Len(board) -> Roster(g)] :
          /\ \A i, j \in 1..Len(board) : i # j => pick[i] # pick[j]
          /\ \A i \in 1..Len(board) :
                board[i] = [Name |-> hp[pick[i]].Name, Points |-> hp[pick[i]].Points]
          /\ \A id \in Roster(g) \ {pick[i] : i \in 1..Len(board)} :
                \A i \in 1..Len(board) : hp[id].Points <= board[i].Points

\* C7 as stated: min(3, n) entries, the highest-scoring players, strictly
\* descending by points, and a second call returns the same entries.
C7_StrictlyDescending ==
    /\ Shape(Board)
    /\ \A i \in 1..(Len(Board) - 1) : Board[i].Points > Board[i + 1].Points
    /\ BoardAgain = Board

\* C7 amended: min(3, n) entries, the highest-scoring players, descending by
\* points with tied players next to each other (never ascending), and a
\* second call returns the same entries in the same order.
C7_Descending ==
    /\ Shape(Board)
    /\ \A i \in 1..(Len(Board) - 1) : Board[i].Points >= Board[i + 1].Points
    /\ BoardAgain = Board

\* C7 witness: getLeaderboard has run on a roster of more than three players
\* in which differently named players tie for the first place.
C7_Witness ==
    /\ op.name = "getLeaderboard"
    /\ Len(g.Players) > 3
    /\ Board[1].Points = Board[2].Points
    /\ Board[1].Name # Board[2].Name
    /\ Board[3].Points < Board[2].Points

\* C8: ChangeState(EndState) and End's Leaderboard broadcast each run at
\* most once however often End is called, the broadcast only after the
\* change, and exactly once each when every goroutine has returned from an
\* End that was called.
C8_EndOnce ==
    /\ net.endState <= 1
    /\ net.endBoard <= 1
    /\ net.endBoard = 1 => net.endState = 1
    /\ net.endCalls >= 1 => g.Ended
    /\ (net.endCalls >= 1 /\ \A t \in TaskIds : tasks[t] = << >>)
          => (net.endState = 1 /\ net.endBoard = 1)

\* C8 witness: the timer goroutine and the host's handler are both about to
\* run End at the same time.
C8_Witness ==
    /\ tasks[TimerTask] # << >>
    /\ tasks[TimerTask][1].l = "End"
    /\ tasks[HostTask] # << >>
    /\ tasks[HostTask][1].l = "End"

\* the phase changes of the state machine as specified
AllowedChange(from, to, gm) ==
    \/ from = LobbyState /\ to = PlayState
    \/ from = PlayState /\ to = RevealState
    \/ from = RevealState /\ to = IntermissionState
    \/ from = IntermissionState /\ to = PlayState
    \/ from = IntermissionState /\ to = EndState
    \/ from = LobbyState /\ to = EndState /\ Len(gm.Quiz) = 0

\* C9: every change of the phase is one of the specified ones, and Play does
\* not go on to the next question's Play directly (the statement of the
\* claim).
C9_OnlySpecifiedChanges ==
    [][/\ g'.State # g.State => AllowedChange(g.State, g'.State, g)
       /\ (g.State = PlayState /\ g'.State = PlayState)
             => g'.CurrentQuestion = g.CurrentQuestion]_vars

\* C10: while the phase is Play, Reveal or Intermission the question index is
\* a valid index of the quiz, in every state including those inside a
\* running handler (the statement of the claim).
C10_IndexValidInGame ==
    g.State \in {PlayState, RevealState, IntermissionState} => ValidQuestion(g)

\* the phase-specific transition a task is about to run, if any
Entering(t) ==
    IF tasks[t] # << >> /\ tasks[t][1].l \in {"Reveal", "Intermission", "NextQuestion"}
    THEN {tasks[t][1].l}
    ELSE {}

\* C11: with a host that only skips after the start, a countdown reaching 0
\* and a Skip in the same phase do not both run the phase's transition: the
\* timer and the host are never both about to run Reveal, Intermission or
\* NextQuestion, and the question index never passes the end of the quiz,
\* i.e. it advances once per Intermission (the statement of the claim).
C11_TransitionOnce ==
    /\ Entering(TimerTask) \cap Entering(HostTask) = {}
    /\ g.CurrentQuestion <= Len(g.Quiz)

\* the recipients, in order, of the packets of one kind in a list of sends
Recipients(sent, kind) ==
    LET of == SelectSeq(sent, LAMBDA p : p.kind = kind)
    IN  [i \in 1..Len(of) |-> of[i].to]

\* C12: when the session enters Reveal, the ChangeGameStatePacket broadcast
\* is written to every roster player in roster order and then to the host,
\* whether or not an earlier recipient's connection failed (the statement of
\* the claim).
C12_BroadcastReachesAll ==
    [][(g'.State # g.State /\ g'.State = RevealState)
       => Recipients(net'.sent, "ChangeGameStatePacket")
            = g'.Players \o <<HostTask>>]_vars

\* the packets of one kind in a list of sends
Packets(sent, kind) == SelectSeq(sent, LAMBDA p : p.kind = kind)

\* C13: when a handler takes the session from Lobby or Intermission into
\* Play for question i, a ChangeGameStatePacket(Play) is written before the
\* QuestionShowPacket for i, the QuestionShowPacket goes to every roster
\* player and the host, the countdown is question i's time limit and no
\* roster player is marked answered (the statement of the claim).
C13_PlayEntry ==
    [][(/\ g.State \in {LobbyState, IntermissionState}
        /\ g'.State = PlayState
        /\ ValidQuestion(g'))
       => /\ \E i, j \in 1..Len(net'.sent) :
                /\ i < j
                /\ net'.sent[i].kind = "ChangeGameStatePacket"
                /\ net'.sent[i].val = PlayState
                /\ net'.sent[j].kind = "QuestionShowPacket"
                /\ net'.sent[j].val = g'.CurrentQuestion
          /\ Recipients(net'.sent, "QuestionShowPacket")
                = g'.Players \o <<HostTask>>
          /\ g'.Time = getCurrentQuestion(g').Time
          /\ \A id \in Roster(g') : ~hp'[id].Answered]_vars

\* C14: a handler that takes the session from Play to Reveal leaves the
\* countdown at 7 and LastAwardedPoints = 0 for every roster player who had
\* not answered, and writes one PlayerRevealPacket per roster player, in
\* roster order, to that player's connection with that player's
\* LastAwardedPoints.
C14_RevealEntry ==
    [][(g.State = PlayState /\ g'.State = RevealState)
       => /\ g'.Time = 7
          /\ \A id \in Roster(g') :
                (~hp[id].Answered /\ ~(AnswerStep /\ op'.p = id))
                   => hp'[id].LastAwardedPoints = 0
          /\ LET pk == Packets(net'.sent, "PlayerRevealPacket")
             IN  /\ Len(pk) = Len(g'.Players)
                 /\ \A i \in 1..Len(pk) :
                       /\ pk[i].to = g'.Players[i]
                       /\ pk[i].val = hp'[g'.Players[i]].LastAwardedPoints]_vars

\* C14 witness: the second question's countdown has run out while a player
\* who scored on the first question had not answered, beside another
\* player; the packet written to the first carries 0.
C14_Witness ==
    /\ g.State = RevealState
    /\ g.CurrentQuestion = 1
    /\ op.name # "Skip"
    /\ Len(g.Players) = 2
    /\ \E id \in Roster(g) :
          /\ hp[id].Points > 0
          /\ ~hp[id].Answered
          /\ hp[id].LastAwardedPoints = 0
          /\ \E i \in 1..Len(net.sent) :
                net.sent[i] = [to |-> id, kind |-> "PlayerRevealPacket",
                               val |-> 0, ok |-> TRUE]

JoinStep == left'.joins < left.joins

\* a list of sends without the outcome of each write
Written(sent) ==
    [i \in 1..Len(sent) |-> <<sent[i].to, sent[i].kind, sent[i].val>>]

\* C17: OnPlayerJoin appends one new player at the end of the roster with
\* Points 0 and Answered false, writes the joiner a ChangeGameStatePacket
\* with the current phase and the host a PlayerJoinPacket, and leaves the
\* phase, the countdown, the question index and the other players alone;
\* a player whose join was handled during Play can answer: the answer is
\* recorded and, if correct, rewarded.
C17_JoinFrame ==
    [][/\ JoinStep
          => /\ op'.p \notin DOMAIN hp
             /\ g'.Players = Append(g.Players, op'.p)
             /\ hp'[op'.p].Points = 0
             /\ ~hp'[op'.p].Answered
             /\ \A id \in DOMAIN hp : hp'[id] = hp[id]
             /\ DOMAIN hp' = DOMAIN hp \cup {op'.p}
             /\ g'.State = g.State
             /\ g'.Time = g.Time
             /\ g'.CurrentQuestion = g.CurrentQuestion
             /\ Written(net'.sent) =
                   << <<op'.p, "ChangeGameStatePacket", g.State>>,
                      <<HostTask, "PlayerJoinPacket", op'.p>> >>
       /\ (/\ AnswerStep
           /\ op.name = "OnPlayerJoin"
           /\ op.p = op'.p
           /\ g.State = PlayState)
          => /\ hp'[op'.p].Answered
             /\ isCorrectChoice(g, op'.c)
                   => hp'[op'.p].Points = getPointsReward(M)]_vars

\* C17 witness: a second player's join has been handled during Play and the
\* joiner was told the phase is Play.
C17_Witness ==
    /\ op.name = "OnPlayerJoin"
    /\ g.State = PlayState
    /\ Len(g.Players) = 2
    /\ g.Players[2] = op.p
    /\ net.sent # << >>
    /\ net.sent[1].to = op.p
    /\ net.sent[1].val = PlayState

\* the iterations of the timer's loop a started game lasts: each question
\* its time limit, 7 of Reveal and 30 of Intermission, and the iteration
\* that reads Ended
RECURSIVE Timeline(_)
Timeline(quiz) ==
    IF quiz = << >> THEN 1
    ELSE quiz[1].Time + RevealTime + IntermissionTime + Timeline(Tail(quiz))

TicksDone == MaxTicksLive - left.ticks

\* C15: a started game whose timer has run the iterations its questions'
\* countdowns take is in End and its timer goroutine has returned (the
\* statement of the claim, with "eventually" as the end of the questions'
\* countdowns).
C15_EndsWithinTimeline ==
    (g.State # LobbyState /\ TicksDone >= Timeline(g.Quiz))
       => (g.State = EndState /\ g.Ended /\ tasks[TimerTask] = << >>)

\* the frames whose statements call SendPacket or BroadcastPacket
Sending(f) ==
    f.l \in {"ChangeStateBroadcast", "NextQuestionShow", "EndBroadcast", "Reveal",
             "IntermissionBroadcast", "Tick", "OnPlayerJoin", "OnPlayerDisconnect"}

\* C16: no task is about to write packets while it holds stateMutex (the
\* statement of the claim).
C16_NoSendUnderLock ==
    \A t \in TaskIds :
        (mx = t /\ tasks[t] # << >>) => ~Sending(tasks[t][1])

\* C18: once Ended is set the phase does not change to anything but End, and
\* when no handler is running a session that has Ended is in End (the
\* statement of the claim).
C18_EndTerminal ==
    [][/\ (g.Ended /\ g'.State # g.State) => g'.State = EndState
       /\ (g'.Ended /\ \A t \in TaskIds : tasks'[t] = << >>)
             => g'.State = EndState]_vars

\* C19: a call of getLeaderboard leaves the roster as it was, players and
\* order (the statement of the claim).
C19_LeaderboardReadOnly ==
    [][op'.name = "getLeaderboard" => g'.Players = g.Players]_vars

\* C20: of the answers given to one question by different players, no two
\* are rewarded for the same number of earlier answers (with the countdown
\* standing still, no two rewards are equal), and the handlers of two
\* answers are never both about to run Reveal (the statement of the claim).
C20_OrderBonusDistinct ==
    /\ \A p, q \in Roster(g) :
          (/\ p # q
           /\ hp[p].Answered /\ hp[q].Answered
           /\ hp[p].LastAwardedPoints > 0 /\ hp[q].LastAwardedPoints > 0)
          => hp[p].LastAwardedPoints # hp[q].LastAwardedPoints
    /\ \A p, q \in PlayerIds :
          (p # q /\ tasks[p] # << >> /\ tasks[q] # << >>)
          => ~(tasks[p][1].l = "Reveal" /\ tasks[q][1].l = "Reveal")

====
